---- MODULE Spec2Model ----
(***************************************************************************)
(* Execution rules of the ibis dask backend (ibis/dask/execution/generic.py *)
(* and ibis/dask/client.py): the execute_node dispatch registry filled by   *)
(* the module's register decorators, the Cast and Where handlers, the       *)
(* Aggregation handler and the table leaf with its time context.            *)
(***************************************************************************)
EXTENDS Integers, Sequences, FiniteSets, TLC

VARIABLES
    funcs,       \* execute_node.funcs: signature -> handler name
    registered,  \* indices of Registrations already applied
    call,        \* the last dispatch / execution and its outcome
    table,       \* rows of the client's table t
    scope,       \* the Scope object of the caller of execute
    agg,         \* the last Aggregation execution and its outcome
    sibling,     \* what a later evaluation of t under the caller's scope saw
    dictionary,  \* DaskClient.dictionary: table name -> DataFrame
    leaf         \* the last table materialization and its outcome

vars == <<funcs, registered, call, table, scope, agg, sibling, dictionary, leaf>>

dispatchVars == <<funcs, registered, call>>
aggVars == <<table, scope, agg, sibling>>
clientVars == <<dictionary, leaf>>

None == "None"

(***************************************************************************)
(* Runtime classes and their direct bases.                                  *)
(***************************************************************************)
Parents(t) ==
    CASE t = "bool" -> {"int"}
      [] t = "int" -> {"Real"}
      [] t = "float" -> {"Real"}
      [] t = "np_integer" -> {"Real"}
      [] t = "Timestamp" -> {"datetime"}
      [] t = "datetime" -> {"date"}
      [] t = "Timedelta" -> {"timedelta"}
      [] t = "dt_Timestamp" -> {"dt_DataType"}
      [] t = "dt_Interval" -> {"dt_DataType"}
      [] t = "dt_Date" -> {"dt_DataType"}
      [] t = "dt_Array" -> {"dt_DataType"}
      [] t = "dt_String" -> {"dt_DataType"}
      [] t = "dt_Boolean" -> {"dt_DataType"}
      [] t = "dt_Integer" -> {"dt_DataType"}
      [] t = "dt_Int64" -> {"dt_Integer"}
      [] t = "dt_Struct" -> {"dt_DataType"}
      [] OTHER -> {}

RECURSIVE Subclass(_, _)
Subclass(a, b) ==
    \/ a = b
    \/ b = "object"
    \/ \E p \in Parents(a) : Subclass(p, b)

(***************************************************************************)
(* The type tuples imported from ibis.dask.core.                            *)
(***************************************************************************)
integer_types == <<"np_integer", "int">>
floating_types == <<"Real">>
numeric_types == integer_types \o floating_types
boolean_types == <<"bool", "np_bool">>
fixed_width_types == numeric_types \o boolean_types
timedelta_types == <<"Timedelta", "timedelta">>
temporal_types == <<"date", "time", "Timestamp", "datetime">> \o timedelta_types
scalar_types == fixed_width_types \o temporal_types

Range(s) == {s[i] : i \in 1..Len(s)}

(***************************************************************************)
(* The register decorators of generic.py for Cast and Where, in source      *)
(* order.  pats is the decorator's argument list, each position the set of  *)
(* alternative classes (a tuple argument is a union).                       *)
(***************************************************************************)
Reg(fn, pats) == [fn |-> fn, pats |-> pats]

\* the grouped handler registered for plain series operands
CastGroupByRegisteredForSeries ==
    Reg("execute_cast_series_group_by", <<{"Cast"}, {"Series"}, {"dt_DataType"}>>)

CastGroupByRegistration ==
    Reg("execute_cast_series_group_by", <<{"Cast"}, {"SeriesGroupBy"}, {"dt_DataType"}>>)

CastRegistrations ==
    << CastGroupByRegistration,
       Reg("execute_cast_series_generic", <<{"Cast"}, {"Series"}, {"dt_DataType"}>>),
       Reg("execute_cast_series_array", <<{"Cast"}, {"Series"}, {"dt_Array"}>>),
       Reg("execute_cast_series_timestamp", <<{"Cast"}, {"Series"}, {"dt_Timestamp"}>>),
       Reg("execute_cast_series_date", <<{"Cast"}, {"Series"}, {"dt_Date"}>>),
       Reg("execute_cast_null_to_anything", <<{"Cast"}, {"NoneType"}, {"dt_DataType"}>>),
       Reg("execute_cast_datetime_or_timestamp_to_string",
           <<{"Cast"}, {"datetime"}, {"dt_String"}>>),
       Reg("execute_cast_datetime_to_integer", <<{"Cast"}, {"datetime"}, {"dt_Int64"}>>),
       Reg("execute_cast_timestamp_to_integer", <<{"Cast"}, {"Timestamp"}, {"dt_Int64"}>>) >>

CastBoolRegistrations ==
    << Reg("execute_cast_bool_to_timestamp",
           <<{"Cast"}, {"np_bool", "bool"}, {"dt_Timestamp"}>>),
       Reg("execute_cast_bool_to_interval",
           <<{"Cast"}, {"np_bool", "bool"}, {"dt_Interval"}>>) >>

CastScalarRegistrations ==
    << Reg("execute_cast_simple_literal_to_timestamp",
           <<{"Cast"}, Range(integer_types) \cup {"str"}, {"dt_Timestamp"}>>),
       Reg("execute_cast_timestamp_to_timestamp",
           <<{"Cast"}, {"Timestamp"}, {"dt_Timestamp"}>>),
       Reg("execute_cast_datetime_to_datetime",
           <<{"Cast"}, {"datetime"}, {"dt_Timestamp"}>>),
       Reg("execute_cast_string_literal",
           <<{"Cast"}, Range(fixed_width_types) \cup {"str"}, {"dt_DataType"}>>) >>

\* the two Not registrations in the opposite order
NotRegisteredScalarFirst ==
    << Reg("execute_not_scalar", <<{"Not"}, {"dask_Scalar"}>>),
       Reg("execute_not_bool", <<{"Not"}, {"bool", "np_bool", "dask_Scalar"}>>) >>

NotRegistrations ==
    << Reg("execute_not_bool", <<{"Not"}, {"bool", "np_bool", "dask_Scalar"}>>),
       Reg("execute_not_scalar", <<{"Not"}, {"dask_Scalar"}>>) >>

\* for scalar_type in scalar_types: register(ops.Where, first, scalar_type, scalar_type)
WhereLoop(fn, first) ==
    [i \in 1..Len(scalar_types) |->
        Reg(fn, <<{"Where"}, first, {scalar_types[i]}, {scalar_types[i]}>>)]

WhereSeriesRegistrations ==
    << Reg("execute_node_where_series_series_series",
           <<{"Where"}, {"Series"}, {"Series"}, Range(scalar_types)>>),
       Reg("execute_node_where_series_series_series",
           <<{"Where"}, {"Series"}, {"Series"}, {"Series"}>>) >>
    \o WhereLoop("execute_node_where_series_scalar_scalar", {"Series"})

WhereScalarRegistrations ==
    << Reg("execute_node_where_scalar_scalar_scalar",
           <<{"Where"}, Range(boolean_types), {"Series"}, {"Series"}>>) >>
    \o WhereLoop("execute_node_where_scalar_scalar_scalar", Range(boolean_types))
    \o << Reg("execute_node_where_scalar_series_scalar",
              <<{"Where"}, Range(boolean_types), {"Series"}, Range(scalar_types)>>),
          Reg("execute_node_where_scalar_scalar_series",
              <<{"Where"}, Range(boolean_types), Range(scalar_types), {"Series"}>>) >>

ArbitraryRegistrations ==
    << Reg("execute_arbitrary_series_groupby",
           <<{"Arbitrary"}, {"SeriesGroupBy"}, {"NoneType"}>>),
       Reg("execute_arbitrary_series_mask",
           <<{"Arbitrary"}, {"Series"}, {"Series", "NoneType"}>>) >>

RowIDRegistration == Reg("execute_rowid", <<{"RowID"}>>)

Registrations ==
    CastRegistrations \o CastBoolRegistrations \o CastScalarRegistrations
    \o ArbitraryRegistrations \o NotRegistrations
    \o WhereSeriesRegistrations \o WhereScalarRegistrations
    \o <<RowIDRegistration>>

NumRegistrations == Len(Registrations)

(***************************************************************************)
(* The dispatcher behind execute_node.                                      *)
(***************************************************************************)
RECURSIVE Product(_)
Product(pats) ==
    IF pats = <<>> THEN {<<>>}
    ELSE {<<h>> \o t : h \in Head(pats), t \in Product(Tail(pats))}

\* Dispatcher.add: a union argument registers every combination; a signature
\* registered again is rebound to the later function.
Add(fs, r) ==
    LET new == Product(r.pats)
    IN [s \in (DOMAIN fs) \cup new |-> IF s \in new THEN r.fn ELSE fs[s]]

Matches(types, sig) ==
    /\ Len(types) = Len(sig)
    /\ \A k \in 1..Len(sig) : Subclass(types[k], sig[k])

Supercedes(a, b) ==
    /\ Len(a) = Len(b)
    /\ \A k \in 1..Len(a) : Subclass(a[k], b[k])

\* The signatures a lookup may return: those matching the runtime types that
\* no other matching signature is strictly more specific than.
Candidates(fs, types) ==
    LET M == {s \in DOMAIN fs : Matches(types, s)}
    IN {s \in M : \A t \in M : Supercedes(t, s) => Supercedes(s, t)}

NoImplementationFound == "NoImplementationFound"

\* Every handler a lookup of `types` can yield.
Resolutions(fs, types) ==
    IF Candidates(fs, types) = {} THEN {NoImplementationFound}
    ELSE {fs[s] : s \in Candidates(fs, types)}

(***************************************************************************)
(* Filling the registry (module import) and looking a signature up.         *)
(***************************************************************************)
Unregistered == (1..NumRegistrations) \ registered

\* The decorators run as the module is imported; the order in which the
\* registrations reach the dispatcher is left open at both ends.
Register(i) ==
    /\ call.kind = "idle"
    /\ i \in Unregistered
    /\ \/ \A j \in Unregistered : i <= j
       \/ \A j \in Unregistered : i >= j
    /\ funcs' = Add(funcs, Registrations[i])
    /\ registered' = registered \cup {i}
    /\ call' = [kind |-> "idle"]
    /\ UNCHANGED aggVars
    /\ UNCHANGED clientVars


ResolveOperands == {"Series", "SeriesGroupBy", "bool", "np_bool"}

ResolveTargets == {"dt_Timestamp", "dt_Interval", "dt_Int64"}

\* execute_node(op, data, type) for a Cast node: one lookup in the registry as
\* it stands; a lookup may be repeated any number of times.
Resolve ==
    /\ call.kind = "idle"
    /\ \E t \in ResolveOperands, c \in ResolveTargets :
       \E fn \in Resolutions(funcs, <<"Cast", t, c>>) :
         call' = [kind |-> "dispatch", types |-> <<"Cast", t, c>>, fn |-> fn]
    /\ UNCHANGED <<funcs, registered>>
    /\ UNCHANGED aggVars
    /\ UNCHANGED clientVars

(***************************************************************************)
(* Logical types (instances of ibis.expr.datatypes classes).                *)
(***************************************************************************)
LogicalTypes ==
    {"boolean", "int64", "string", "timestamp", "timestamp_utc", "timestamp_cet",
     "date", "interval", "struct"}

ClassOf(type) ==
    CASE type = "boolean" -> "dt_Boolean"
      [] type = "int64" -> "dt_Int64"
      [] type = "string" -> "dt_String"
      [] type \in {"timestamp", "timestamp_utc", "timestamp_cet"} -> "dt_Timestamp"
      [] type = "date" -> "dt_Date"
      [] type = "interval" -> "dt_Interval"
      [] type = "struct" -> "dt_Struct"

\* type.timezone of a Timestamp type
Timezone(type) ==
    CASE type = "timestamp_utc" -> "UTC"
      [] type = "timestamp_cet" -> "CET"
      [] OTHER -> None

\* Offset of a zone from UTC, in hours.
UtcOffset(tz) == IF tz = "CET" THEN 1 ELSE 0

(***************************************************************************)
(* Materialized values.  An element is <<"bool", 0|1>>, <<"int", n>>,       *)
(* <<"str", text>>, <<"ts", wall clock hour, tz>>, <<"td", n>>,             *)
(* <<"struct", n>> or <<"null">>.  A value has a runtime class rt, its       *)
(* elements vals (one for a scalar) and, when grouped, its groupings.       *)
(***************************************************************************)
Scalar(rt, e) == [rt |-> rt, vals |-> <<e>>, groupings |-> << >>]
Series(es) == [rt |-> "Series", vals |-> es, groupings |-> << >>]
SeriesGroupBy(es, g) == [rt |-> "SeriesGroupBy", vals |-> es, groupings |-> g]
NoValue == [rt |-> "NoValue", vals |-> << >>, groupings |-> << >>]

IsSeries(x) == x.rt = "Series"
IsScalar(x) == x.rt \notin {"Series", "SeriesGroupBy", "NoValue"}

\* data.obj of a grouped series
Obj(gb) == Series(gb.vals)

\* series.groupby(groupings)
GroupBy(series, g) == SeriesGroupBy(series.vals, g)

Returned(val) == [exc |-> None, msg |-> None, val |-> val]
Raised(exc, msg) == [exc |-> exc, msg |-> msg, val |-> NoValue]


(***************************************************************************)
(* Element conversions used by the Cast handlers.                           *)
(***************************************************************************)
\* The number an element stands for: int(x)
IntOf(e) ==
    CASE e[1] = "bool" -> e[2]
      [] e[1] = "int" -> e[2]
      [] e[1] = "str" -> CHOOSE n \in 0..99 : ToString(n) = e[2]
      [] e[1] = "ts" -> e[2] - UtcOffset(e[3])
      [] OTHER -> e[2]

\* str(x)
StrOf(e) ==
    CASE e[1] = "bool" -> IF e[2] = 1 THEN "True" ELSE "False"
      [] e[1] = "str" -> e[2]
      [] OTHER -> ToString(e[2])

\* bool(x)
BoolOf(e) ==
    CASE e[1] = "str" -> IF e[2] = "" THEN 0 ELSE 1
      [] OTHER -> IF e[2] = 0 THEN 0 ELSE 1

\* numpy/python conversion of one element to the native type of `type`
Convert(type, e) ==
    CASE e[1] = "null" -> e
      [] type = "boolean" -> <<"bool", BoolOf(e)>>
      [] type = "int64" -> <<"int", IntOf(e)>>
      [] type = "string" -> <<"str", StrOf(e)>>
      [] OTHER -> e

\* Timestamp.tz_localize(tz): attach a zone to a naive value, or with tz None
\* drop the zone of an aware one; the wall clock stays in both cases.
TzLocalize(e, tz) == <<"ts", e[2], tz>>

\* astype('M8[ns]') of a timezone-aware value: the UTC wall clock, no zone
ToNaiveUtc(e) == <<"ts", e[2] - UtcOffset(e[3]), None>>

\* Timestamp.tz_convert(tz): same instant in another zone
TzConvert(e, tz) == <<"ts", e[2] - UtcOffset(e[3]) + UtcOffset(tz), tz>>

\* Timestamp(value, tz=tz) / to_datetime(value) for an integer or a string
ToTimestamp(e, tz) == <<"ts", IntOf(e) + UtcOffset(tz), tz>>

\* Timestamp.normalize(): midnight of the same day
Normalize(e) == <<"ts", e[2] - (e[2] % 24), e[3]>>

(***************************************************************************)
(* Lookup tables of ibis.dask.execution.constants.                          *)
(***************************************************************************)
\* keys of constants.IBIS_TYPE_TO_DASK_TYPE: the primitive types
IBIS_TYPE_TO_DASK_TYPE == {"boolean", "int64", "string", "timestamp"}

\* keys of constants.IBIS_TO_PYTHON_LITERAL_TYPES
IBIS_TO_PYTHON_LITERAL_TYPES == {"boolean", "int64", "string"}

(***************************************************************************)
(* Cast handlers.  op is the Cast node: arg_type is op.arg.type() and to    *)
(* the target type; data is the evaluated operand.                          *)
(***************************************************************************)
execute_cast_series_generic(op, data, type) ==
    IF type \notin IBIS_TYPE_TO_DASK_TYPE THEN Raised("KeyError", type)
    ELSE LET astype(e) == IF type = "timestamp" /\ e[1] # "ts"
                          THEN ToTimestamp(e, None)
                          ELSE Convert(type, e)
         IN Returned(Series([i \in 1..Len(data.vals) |-> astype(data.vals[i])]))

execute_cast_series_group_by(op, data, type) ==
    LET result == execute_cast_series_generic(op, Obj(data), type)
    IN IF result.exc # None THEN result
       ELSE Returned(GroupBy(result.val, data.groupings))

DontKnowHowToCast == "Don't know how to cast {} to {}"

execute_cast_series_timestamp(op, data, type) ==
    LET from_type == op.arg_type
        tz == Timezone(type)
        astype(e) == IF e[3] = None /\ tz = None THEN e
                     ELSE IF e[3] = None THEN TzConvert(<<"ts", e[2], "UTC">>, tz)
                     ELSE IF tz = None THEN ToNaiveUtc(e)
                     ELSE TzConvert(e, tz)
        parse(e) == TzLocalize(ToTimestamp(e, None), tz)
    IN IF from_type = type THEN Returned(data)
       ELSE IF ClassOf(from_type) \in {"dt_Timestamp", "dt_Date"}
       THEN Returned(Series([i \in 1..Len(data.vals) |-> astype(data.vals[i])]))
       ELSE IF ClassOf(from_type) \in {"dt_String", "dt_Int64"}
       THEN Returned(Series([i \in 1..Len(data.vals) |-> parse(data.vals[i])]))
       ELSE Raised("TypeError", DontKnowHowToCast)

execute_cast_series_date(op, data, type) ==
    LET from_type == op.arg_type
        parse(e) == Normalize(ToTimestamp(e, None))
        days(e) == <<"ts", 24 * IntOf(e), None>>
    IN IF from_type = type THEN Returned(data)
       ELSE IF ClassOf(from_type) = "dt_Timestamp"
       THEN Returned(Series([i \in 1..Len(data.vals) |-> Normalize(data.vals[i])]))
       ELSE IF from_type = "string"
       THEN Returned(Series([i \in 1..Len(data.vals) |-> parse(data.vals[i])]))
       ELSE IF ClassOf(from_type) = "dt_Int64"
       THEN Returned(Series([i \in 1..Len(data.vals) |-> days(data.vals[i])]))
       ELSE Raised("TypeError", DontKnowHowToCast)

execute_cast_null_to_anything(op, data, type) ==
    Returned(Scalar("NoneType", <<"null">>))

\* str(data) of a timestamp
execute_cast_datetime_or_timestamp_to_string(op, data, type) ==
    Returned(Scalar("str", <<"str", StrOf(data.vals[1])>>))

\* Timestamp(data).value
execute_cast_datetime_to_integer(op, data, type) ==
    Returned(Scalar("int", <<"int", IntOf(data.vals[1])>>))

execute_cast_timestamp_to_integer(op, data, type) ==
    Returned(Scalar("int", <<"int", IntOf(data.vals[1])>>))

BoolToTimestampMessage ==
    "Casting boolean values to timestamps does not make sense. cast to int64 first"

BoolToIntervalMessage ==
    "Casting boolean values to intervals does not make sense. cast to int64 first"

execute_cast_bool_to_timestamp(op, data, type) ==
    Raised("TypeError", BoolToTimestampMessage)

execute_cast_bool_to_interval(op, data, type) ==
    Raised("TypeError", BoolToIntervalMessage)

execute_cast_simple_literal_to_timestamp(op, data, type) ==
    Returned(Scalar("Timestamp", ToTimestamp(data.vals[1], Timezone(type))))

\* a cast that stamps the target zone on the wall clock of any input
CastAlwaysLocalizes(op, data, type) ==
    Returned(Scalar("Timestamp", TzLocalize(data.vals[1], Timezone(type))))

execute_cast_timestamp_to_timestamp(op, data, type) ==
    LET input_timezone == data.vals[1][3]
        target_timezone == Timezone(type)
    IN IF input_timezone = target_timezone THEN Returned(data)
       ELSE IF input_timezone = None \/ target_timezone = None
       THEN Returned(Scalar("Timestamp", TzLocalize(data.vals[1], target_timezone)))
       ELSE Returned(Scalar("Timestamp", TzConvert(data.vals[1], target_timezone)))

execute_cast_datetime_to_datetime(op, data, type) ==
    LET result == execute_cast_timestamp_to_timestamp(op, data, type)
    IN Returned(Scalar("datetime", result.val.vals[1]))

\* the Python class of a converted literal
LiteralClass(type) ==
    CASE type = "boolean" -> "bool"
      [] type = "int64" -> "int"
      [] type = "string" -> "str"

execute_cast_string_literal(op, data, type) ==
    IF type \notin IBIS_TO_PYTHON_LITERAL_TYPES
    THEN Raised("TypeError", DontKnowHowToCast)
    ELSE Returned(Scalar(LiteralClass(type), Convert(type, data.vals[1])))

\* Calling the resolved implementation.
ApplyCast(fn, op, data, type) ==
    CASE fn = NoImplementationFound -> Raised("NotImplementedError", NoImplementationFound)
      [] fn = "execute_cast_series_group_by" -> execute_cast_series_group_by(op, data, type)
      [] fn = "execute_cast_series_generic" -> execute_cast_series_generic(op, data, type)
      [] fn = "execute_cast_series_timestamp" -> execute_cast_series_timestamp(op, data, type)
      [] fn = "execute_cast_series_date" -> execute_cast_series_date(op, data, type)
      [] fn = "execute_cast_null_to_anything" -> execute_cast_null_to_anything(op, data, type)
      [] fn = "execute_cast_datetime_or_timestamp_to_string" ->
            execute_cast_datetime_or_timestamp_to_string(op, data, type)
      [] fn = "execute_cast_datetime_to_integer" ->
            execute_cast_datetime_to_integer(op, data, type)
      [] fn = "execute_cast_datetime_to_datetime" ->
            execute_cast_datetime_to_datetime(op, data, type)
      [] fn = "execute_cast_timestamp_to_integer" ->
            execute_cast_timestamp_to_integer(op, data, type)
      [] fn = "execute_cast_bool_to_timestamp" -> execute_cast_bool_to_timestamp(op, data, type)
      [] fn = "execute_cast_bool_to_interval" -> execute_cast_bool_to_interval(op, data, type)
      [] fn = "execute_cast_simple_literal_to_timestamp" ->
            execute_cast_simple_literal_to_timestamp(op, data, type)
      [] fn = "execute_cast_timestamp_to_timestamp" ->
            execute_cast_timestamp_to_timestamp(op, data, type)
      [] fn = "execute_cast_string_literal" -> execute_cast_string_literal(op, data, type)

(***************************************************************************)
(* Operands a Cast node can be evaluated on: values of its argument's type. *)
(***************************************************************************)
\* Longest column.
MaxLen == 2

\* Elements of a column of the given logical type.
Elems(type) ==
    CASE type = "boolean" -> {<<"bool", 0>>, <<"bool", 1>>}
      [] type = "int64" -> {<<"int", 0>>, <<"int", 2>>}
      [] type = "string" -> {<<"str", "0">>, <<"str", "25">>}
      [] type = "date" -> {<<"ts", 0, None>>, <<"ts", 24, None>>}
      [] type = "interval" -> {<<"td", 0>>, <<"td", 1>>}
      [] type = "struct" -> {<<"struct", 0>>, <<"struct", 1>>}
      [] OTHER -> {<<"ts", 0, Timezone(type)>>, <<"ts", 25, Timezone(type)>>}

\* Python classes of a scalar of the given logical type.
ScalarClasses(type) ==
    CASE type = "boolean" -> {"bool", "np_bool"}
      [] type = "int64" -> {"int"}
      [] type = "string" -> {"str"}
      [] type = "interval" -> {"Timedelta"}
      [] type \in {"date", "struct"} -> {}
      [] OTHER -> {"Timestamp"}

SeqsUpTo(S, n) == UNION {[1..k -> S] : k \in 0..n}

GroupKeys == {"a", "b"}

ColumnsOf(type) == {Series(es) : es \in SeqsUpTo(Elems(type), MaxLen)}

GroupedColumnsOf(type) ==
    {SeriesGroupBy(es, g) : es \in SeqsUpTo(Elems(type), MaxLen),
                            g \in SeqsUpTo(GroupKeys, MaxLen)}

ValuesOf(type) ==
    {Scalar(c, e) : c \in ScalarClasses(type), e \in Elems(type)}
    \cup ColumnsOf(type)
    \cup {x \in GroupedColumnsOf(type) : Len(x.groupings) = Len(x.vals)}

AllRegistered == registered = 1..NumRegistrations

\* A call is in progress until its outcome is handed back.
Executing == call.kind # "idle"

\* The outcome reaches the caller; nothing of the evaluation is kept.
Return ==
    /\ Executing
    /\ call' = [kind |-> "idle"]
    /\ UNCHANGED <<funcs, registered>>
    /\ UNCHANGED aggVars
    /\ UNCHANGED clientVars

\* execute(Cast(arg, to)): the operand is evaluated, the handler resolved on
\* the operand's runtime class and the target's class, and called.
ExecuteCast ==
    /\ AllRegistered
    /\ ~Executing
    /\ \E from \in LogicalTypes, to \in LogicalTypes :
       \E data \in ValuesOf(from) :
       \E fn \in Resolutions(funcs, <<"Cast", data.rt, ClassOf(to)>>) :
         LET op == [arg_type |-> from, to |-> to]
         IN call' = [kind |-> "cast", op |-> op, data |-> data, fn |-> fn,
                     res |-> ApplyCast(fn, op, data, to)]
    /\ UNCHANGED <<funcs, registered>>
    /\ UNCHANGED aggVars
    /\ UNCHANGED clientVars

(***************************************************************************)
(* Where handlers.                                                          *)
(***************************************************************************)
Truth(e) == e[2] = 1

\* Series.where(cond, other): keep the row where cond holds, else take other
\* (a column row by row, a scalar as it is).
SeriesWhere(self, cond, other) ==
    Series([i \in 1..Len(self.vals) |->
              IF Truth(cond.vals[i]) THEN self.vals[i]
              ELSE IF IsSeries(other) THEN other.vals[i] ELSE other.vals[1]])

\* np.repeat(scalar, length) wrapped as a column
Repeat(scalar, length) == Series([i \in 1..length |-> scalar.vals[1]])

WhereSwappedBranches(op, cond, true, false) ==
    Returned(SeriesWhere(IF IsSeries(false) THEN false ELSE Repeat(false, Len(cond.vals)),
                         cond, true))

execute_node_where_series_series_series(op, cond, true, false) ==
    Returned(SeriesWhere(true, cond, false))

execute_node_where_series_scalar_scalar(op, cond, true, false) ==
    Returned(SeriesWhere(Repeat(true, Len(cond.vals)), cond, false))

execute_node_where_scalar_scalar_scalar(op, cond, true, false) ==
    Returned(IF Truth(cond.vals[1]) THEN true ELSE false)

execute_node_where_scalar_series_scalar(op, cond, true, false) ==
    IF Truth(cond.vals[1]) THEN Returned(true)
    ELSE Returned(Repeat(false, Len(true.vals)))

execute_node_where_scalar_scalar_series(op, cond, true, false) ==
    Returned(IF Truth(cond.vals[1]) THEN Repeat(true, Len(false.vals)) ELSE false)

ApplyWhere(fn, op, cond, true, false) ==
    CASE fn = NoImplementationFound -> Raised("NotImplementedError", NoImplementationFound)
      [] fn = "execute_node_where_series_series_series" ->
            execute_node_where_series_series_series(op, cond, true, false)
      [] fn = "execute_node_where_series_scalar_scalar" ->
            execute_node_where_series_scalar_scalar(op, cond, true, false)
      [] fn = "execute_node_where_scalar_scalar_scalar" ->
            execute_node_where_scalar_scalar_scalar(op, cond, true, false)
      [] fn = "execute_node_where_scalar_series_scalar" ->
            execute_node_where_scalar_series_scalar(op, cond, true, false)
      [] fn = "execute_node_where_scalar_scalar_series" ->
            execute_node_where_scalar_scalar_series(op, cond, true, false)

\* Evaluated operands of a Where node: a boolean condition and two branches,
\* columns of one table having the same length.
Conditions ==
    {Scalar(c, e) : c \in {"bool", "np_bool"}, e \in Elems("boolean")}
    \cup ColumnsOf("boolean")

BranchElems == {<<"int", 1>>, <<"int", 2>>, <<"int", 9>>}

Branches ==
    {Scalar("int", e) : e \in BranchElems}
    \cup {Scalar("float", <<"float", 1>>), Scalar("Timestamp", <<"ts", 0, None>>)}
    \cup {Series(es) : es \in SeqsUpTo(BranchElems, MaxLen)}

SameLength(xs) ==
    \A x \in xs, y \in xs : IsSeries(x) /\ IsSeries(y) => Len(x.vals) = Len(y.vals)

\* execute(Where(bool_expr, true_expr, false_null_expr))
ExecuteWhere ==
    /\ AllRegistered
    /\ ~Executing
    /\ \E cond \in Conditions, true \in Branches, false \in Branches :
         /\ SameLength({cond, true, false})
         /\ \E fn \in Resolutions(funcs, <<"Where", cond.rt, true.rt, false.rt>>) :
              call' = [kind |-> "where", cond |-> cond, true |-> true, false |-> false,
                       fn |-> fn, res |-> ApplyWhere(fn, "Where", cond, true, false)]
    /\ UNCHANGED <<funcs, registered>>
    /\ UNCHANGED aggVars
    /\ UNCHANGED clientVars

(***************************************************************************)
(* Not on scalars.                                                          *)
(***************************************************************************)
ScalarTruthValue == "Trying to convert dd.Scalar to a boolean value"

\* not data: a Python bool; a lazy dask scalar has no truth value
execute_not_bool(op, data) ==
    IF data.rt = "dask_Scalar" THEN Raised("TypeError", ScalarTruthValue)
    ELSE Returned(Scalar("bool", <<"bool", 1 - data.vals[1][2]>>))

\* ~data: the lazy inversion of a dask scalar
execute_not_scalar(op, data) ==
    Returned(Scalar("dask_Scalar", <<"bool", 1 - data.vals[1][2]>>))

ApplyNot(fn, op, data) ==
    CASE fn = NoImplementationFound -> Raised("NotImplementedError", NoImplementationFound)
      [] fn = "execute_not_bool" -> execute_not_bool(op, data)
      [] fn = "execute_not_scalar" -> execute_not_scalar(op, data)

\* execute(Not(arg)) with the operand evaluated to a scalar
ExecuteNot ==
    /\ AllRegistered
    /\ ~Executing
    /\ \E rt \in {"bool", "np_bool", "dask_Scalar"}, b \in {0, 1} :
         LET data == Scalar(rt, <<"bool", b>>)
         IN \E fn \in Resolutions(funcs, <<"Not", rt>>) :
               call' = [kind |-> "not", data |-> data, fn |-> fn,
                        res |-> ApplyNot(fn, "Not", data)]
    /\ UNCHANGED <<funcs, registered>>
    /\ UNCHANGED aggVars
    /\ UNCHANGED clientVars

(***************************************************************************)
(* Row-wise reductions: Greatest, Least, Coalesce over a list of operands.  *)
(***************************************************************************)
\* Most operands of a row-wise reduction.
MaxOperands == 2

\* len(str)
StrLen(text) ==
    CASE text = "ab" -> 2
      [] text = "xyz" -> 3

\* isinstance(x, collections.abc.Sized): columns, and strings among scalars
IsSized(x) == IsSeries(x) \/ x.rt = "str"

\* len(x)
SizeOf(x) == IF IsSeries(x) THEN Len(x.vals) ELSE StrLen(x.vals[1][2])

isnull(e) == e = <<"null">>

\* obj.values of a column, np.repeat(obj, length) of anything else
promote_to_sequence(length, obj) ==
    IF IsSeries(obj) THEN obj.vals ELSE [i \in 1..length |-> obj.vals[1]]

MaxOf(S) == CHOOSE e \in S : \A f \in S : f[2] <= e[2]
MinOf(S) == CHOOSE e \in S : \A f \in S : e[2] <= f[2]

\* functools.reduce(lambda x, y: x if not isnull(x) else y, values) over
\* scalars: the first operand that is not null, else the last one
RECURSIVE CoalesceScalars(_, _, _)
CoalesceScalars(values, i, x) ==
    IF i > Len(values) THEN x
    ELSE CoalesceScalars(values, i + 1, IF ~isnull(x.vals[1]) THEN x ELSE values[i])

AmbiguousTruthValue ==
    "The truth value of an array with more than one element is ambiguous. Use a.any() or a.all()"

\* The same fold over promoted arrays.  "not isnull(x)" takes the truth value
\* of a whole boolean array: that of its element when it has one, a
\* ValueError when it has more; for an empty array numpy answers False or
\* raises, depending on its version (emptyRaises).
RECURSIVE CoalesceArrays(_, _, _, _)
CoalesceArrays(arrays, i, x, emptyRaises) ==
    IF i > Len(arrays) THEN [exc |-> None, msg |-> None, raw |-> x]
    ELSE IF Len(x) >= 2 \/ (Len(x) = 0 /\ emptyRaises)
    THEN [exc |-> "ValueError", msg |-> AmbiguousTruthValue, raw |-> << >>]
    ELSE IF Len(x) = 0 \/ ~isnull(x[1])
    THEN CoalesceArrays(arrays, i + 1, x, emptyRaises)
    ELSE CoalesceArrays(arrays, i + 1, arrays[i], emptyRaises)

coalesce(values) == CoalesceScalars(values, 2, values[1])

\* func(value) on a list of scalars
ReduceScalars(func, value) ==
    LET elems == {value[i].vals[1] : i \in 1..Len(value)}
    IN CASE func = "np.maximum.reduce" -> Returned(Scalar("int", MaxOf(elems)))
         [] func = "np.minimum.reduce" -> Returned(Scalar("int", MinOf(elems)))
         [] func = "coalesce" -> Returned(coalesce(value))

\* func(arrays, **kwargs) on a list of arrays of one length, axis=0
ReduceArrays(func, arrays, length, emptyRaises) ==
    LET column(i) == {arrays[j][i] : j \in 1..Len(arrays)}
    IN CASE func = "np.maximum.reduce" ->
              [exc |-> None, msg |-> None, raw |-> [i \in 1..length |-> MaxOf(column(i))]]
         [] func = "np.minimum.reduce" ->
              [exc |-> None, msg |-> None, raw |-> [i \in 1..length |-> MinOf(column(i))]]
         [] func = "coalesce" -> CoalesceArrays(arrays, 2, arrays[1], emptyRaises)

TooManyValuesToUnpack == "too many values to unpack (expected 1)"

compute_row_reduction(func, value, emptyRaises) ==
    LET final_sizes == {SizeOf(value[i]) : i \in {j \in 1..Len(value) : IsSized(value[j])}}
        final_size == CHOOSE n \in final_sizes : TRUE
        promoted == [i \in 1..Len(value) |-> promote_to_sequence(final_size, value[i])]
        reduced == ReduceArrays(func, promoted, final_size, emptyRaises)
    IN IF final_sizes = {} THEN ReduceScalars(func, value)
       ELSE IF Cardinality(final_sizes) # 1
       THEN Raised("ValueError", TooManyValuesToUnpack)
       ELSE IF reduced.exc # None THEN Raised(reduced.exc, reduced.msg)
       ELSE Returned(Series(reduced.raw))

execute_node_greatest_list(op, value, emptyRaises) ==
    compute_row_reduction("np.maximum.reduce", value, emptyRaises)

execute_node_least_list(op, value, emptyRaises) ==
    compute_row_reduction("np.minimum.reduce", value, emptyRaises)

execute_node_coalesce(op, values, emptyRaises) ==
    compute_row_reduction("coalesce", values, emptyRaises)

ApplyRowReduction(op, value, emptyRaises) ==
    CASE op = "Greatest" -> execute_node_greatest_list(op, value, emptyRaises)
      [] op = "Least" -> execute_node_least_list(op, value, emptyRaises)
      [] op = "Coalesce" -> execute_node_coalesce(op, value, emptyRaises)

\* Evaluated operands: integer columns and scalars for Greatest and Least;
\* nullable columns, integers, None and strings for Coalesce.
RowOperands(op) ==
    IF op = "Coalesce"
    THEN {Series(es) : es \in SeqsUpTo({<<"int", 1>>, <<"null">>}, MaxLen)}
         \cup {Scalar("int", <<"int", 2>>), Scalar("NoneType", <<"null">>),
               Scalar("str", <<"str", "ab">>), Scalar("str", <<"str", "xyz">>)}
    ELSE {Series(es) : es \in SeqsUpTo({<<"int", 1>>, <<"int", 3>>}, MaxLen)}
         \cup {Scalar("int", <<"int", 2>>)}

\* execute(Greatest/Least/Coalesce(operands...)) with the operands evaluated
ExecuteRowReduction ==
    /\ AllRegistered
    /\ ~Executing
    /\ \E op \in {"Greatest", "Least", "Coalesce"}, n \in 1..MaxOperands, emptyRaises \in BOOLEAN :
         \E value \in [1..n -> RowOperands(op)] :
            call' = [kind |-> "rowreduce", op |-> op, value |-> value,
                     emptyRaises |-> emptyRaises,
                     res |-> ApplyRowReduction(op, value, emptyRaises)]
    /\ UNCHANGED <<funcs, registered>>
    /\ UNCHANGED aggVars
    /\ UNCHANGED clientVars

(***************************************************************************)
(* Aggregation over the table t(k, v).                                      *)
(***************************************************************************)
\* Most rows of t.
MaxRows == 2

TableRows == [k : 1..2, v : {0, 2}]

Tables == SeqsUpTo(TableRows, MaxRows)

\* A DataFrame, and the DataFrameGroupBy data.groupby(grouping_keys) makes of it
Frame(rows) == [grouped |-> FALSE, rows |-> rows]
GroupByKeys(frame) == [grouped |-> TRUE, rows |-> frame.rows]

\* ibis.expr.scope: a Scope binding one node, and the merge of two scopes, a
\* new Scope in which the bindings of `other` shadow those of `self`.
EmptyScope == [n \in {} |-> Frame(<< >>)]
make_scope(node, value) == [n \in {node} |-> value]
merge_scope(self, other) ==
    [n \in (DOMAIN self) \cup (DOMAIN other) |->
        IF n \in DOMAIN other THEN other[n] ELSE self[n]]

\* execute(op.table, scope): the value bound in scope, else the client's table
ExecuteTable(sc, tbl) == IF "t" \in DOMAIN sc THEN sc["t"] ELSE Frame(tbl)

RowSatisfies(p, row) ==
    CASE p = "v_pos" -> row.v > 0
      [] p = "k_is_1" -> row.k = 1

\* execute(predicate, scope): a boolean column over the rows of t
ExecutePredicate(p, sc, tbl) ==
    LET f == ExecuteTable(sc, tbl)
    IN [i \in 1..Len(f.rows) |-> RowSatisfies(p, f.rows[i])]

Or(a, b) == [i \in 1..Len(a) |-> a[i] \/ b[i]]

\* operator.and_ of two boolean columns
And(a, b) == [i \in 1..Len(a) |-> a[i] /\ b[i]]

\* functools.reduce(operator.and_, columns)
RECURSIVE ReduceAnd(_)
ReduceAnd(cols) ==
    IF Len(cols) = 1 THEN cols[1]
    ELSE ReduceAnd(<<And(cols[1], cols[2])>> \o SubSeq(cols, 3, Len(cols)))

RECURSIVE LocFrom(_, _, _)
LocFrom(rows, mask, i) ==
    IF i > Len(rows) THEN << >>
    ELSE (IF mask[i] THEN <<rows[i]>> ELSE << >>) \o LocFrom(rows, mask, i + 1)

LocKeepsAll(rows, mask) == rows

\* frame.loc[mask]: the rows whose mask entry is true, in order
Loc(rows, mask) == LocFrom(rows, mask, 1)

RECURSIVE SortedSeq(_)
SortedSeq(S) ==
    IF S = {} THEN << >>
    ELSE LET m == CHOOSE x \in S : \A y \in S : x <= y
         IN <<m>> \o SortedSeq(S \ {m})

\* the group keys of a grouped frame, in sorted order
GroupKeysOf(rows) == SortedSeq({rows[i].k : i \in 1..Len(rows)})

RowsOfGroup(rows, g) == SelectSeq(rows, LAMBDA r : r.k = g)

RECURSIVE SumV(_)
SumV(rows) == IF rows = << >> THEN 0 ELSE Head(rows).v + SumV(Tail(rows))

\* a reduction over the rows of the frame or of one group
Reduce(name, rows) ==
    CASE name \in {"count", "count_gt_1"} -> Len(rows)
      [] name \in {"sum", "sum_gt_1"} -> SumV(rows)

\* A column indexed by group key (grouped) or a single value (not grouped).
Piece(grouped, index, vals) ==
    [exc |-> None, grouped |-> grouped, index |-> index, vals |-> vals]
FailedPiece(exc) == [exc |-> exc, grouped |-> FALSE, index |-> << >>, vals |-> << >>]

\* execute(metric, scope): the reduction over the table bound in scope, one
\* value per group of a grouped source; the metric "bad" is an
\* Arbitrary(how='heavy'), which raises.
ExecuteMetric(m, sc, tbl) ==
    LET source == ExecuteTable(sc, tbl)
        keys == GroupKeysOf(source.rows)
    IN IF m = "bad" THEN FailedPiece("OperationNotDefinedError")
       ELSE IF source.grouped
       THEN Piece(TRUE, keys,
                  [i \in 1..Len(keys) |-> Reduce(m, RowsOfGroup(source.rows, keys[i]))])
       ELSE Piece(FALSE, << >>, <<Reduce(m, source.rows)>>)

\* execute(having, scope): a comparison of a reduction with a literal
ExecuteHaving(h, sc, tbl) ==
    LET piece == ExecuteMetric(h, sc, tbl)
    IN [piece EXCEPT !.vals = [i \in 1..Len(piece.vals) |-> piece.vals[i] > 1]]

\* dd.concat(pieces, axis=1), then reset_index() of a grouped result: one row
\* per group (key first) or one row in all
Concat(pieces) ==
    LET first == pieces[1]
        cells(i) == [j \in 1..Len(pieces) |-> pieces[j].vals[i]]
    IN IF first.grouped
       THEN [i \in 1..Len(first.index) |-> <<first.index[i]>> \o cells(i)]
       ELSE <<cells(1)>>

ScopeUpdatedInPlace(sc, node, source) ==
    [local |-> merge_scope(sc, make_scope(node, source)),
     caller |-> merge_scope(sc, make_scope(node, source))]

\* scope = scope.merge_scope(make_scope(op.table.op(), source, timecontext)):
\* the handler's name scope is rebound to the merged Scope, the caller's
\* Scope object is left as it was.
AggregationScopes(sc, node, source) ==
    [local |-> merge_scope(sc, make_scope(node, source)), caller |-> sc]

HavingWithoutGroupBy ==
    "Filtering out aggregation values is not allowed without at least one grouping key"

AggOutcome(exc, msg, stage, source, scopes, before, predicate, result) ==
    [exc |-> exc, msg |-> msg, stage |-> stage, source |-> source,
     local |-> scopes.local, caller |-> scopes.caller,
     before |-> before, predicate |-> predicate, result |-> result]

execute_aggregation_dataframe(op, data, sc, tbl) ==
    LET untouched == [local |-> sc, caller |-> sc]
        predicates == [j \in 1..Len(op.predicates) |->
                          ExecutePredicate(op.predicates[j], sc, tbl)]
        filtered == IF op.predicates # << >>
                    THEN Frame(Loc(data.rows, ReduceAnd(predicates)))
                    ELSE data
        source == IF op.by # << >> THEN GroupByKeys(filtered) ELSE filtered
        scopes == AggregationScopes(sc, "t", source)
        pieces == [j \in 1..Len(op.metrics) |->
                      ExecuteMetric(op.metrics[j], scopes.local, tbl)]
        failed == {j \in 1..Len(op.metrics) : pieces[j].exc # None}
        first == CHOOSE j \in failed : \A l \in failed : j <= l
        result == Concat(pieces)
        havings == [j \in 1..Len(op.having) |->
                       ExecuteHaving(op.having[j], scopes.local, tbl).vals]
        predicate == ReduceAnd(havings)
    IN IF op.metrics = << >>
       THEN AggOutcome("AssertionError", "no metrics found during aggregation execution",
                       "start", data, untouched, << >>, << >>, << >>)
       ELSE IF op.sort_keys
       THEN AggOutcome("NotImplementedError", "sorting on aggregations not yet implemented",
                       "start", data, untouched, << >>, << >>, << >>)
       ELSE IF failed # {}
       THEN AggOutcome(pieces[first].exc, "metric", "metrics", source, scopes,
                       << >>, << >>, << >>)
       ELSE IF op.having = << >>
       THEN AggOutcome(None, None, "done", source, scopes, result, << >>, result)
       ELSE IF op.by = << >>
       THEN AggOutcome("ValueError", HavingWithoutGroupBy, "having", source, scopes,
                       result, << >>, << >>)
       ELSE IF Len(predicate) # Len(result)
       THEN AggOutcome("AssertionError",
                       "length of predicate does not match length of DataFrame",
                       "having", source, scopes, result, predicate, << >>)
       ELSE AggOutcome(None, None, "done", source, scopes, result, predicate,
                       Loc(result, predicate))

\* Aggregation nodes over t.
AggOps ==
    [predicates : SeqsUpTo({"v_pos", "k_is_1"}, 2),
     by : {<< >>, <<"k">>},
     metrics : {<< >>, <<"count">>, <<"sum">>, <<"count", "sum">>, <<"bad">>,
                <<"sum", "bad">>},
     having : {<< >>, <<"sum_gt_1">>, <<"sum_gt_1", "count_gt_1">>},
     sort_keys : BOOLEAN]

\* execute(Aggregation(t, ...), scope=scope)
ExecuteAggregation ==
    /\ agg.kind = "idle"
    /\ \E op \in AggOps :
         LET out == execute_aggregation_dataframe(op, ExecuteTable(scope, table),
                                                  scope, table)
         IN /\ agg' = [kind |-> "done", op |-> op, scope_in |-> scope, out |-> out]
            /\ scope' = out.caller
    /\ UNCHANGED <<table, sibling>>
    /\ UNCHANGED dispatchVars
    /\ UNCHANGED clientVars

\* A sibling branch evaluates t afterwards with the same parent scope.
EvaluateSibling ==
    /\ agg.kind = "done"
    /\ sibling.kind = "idle"
    /\ sibling' = [kind |-> "seen", value |-> ExecuteTable(scope, table)]
    /\ UNCHANGED <<table, scope, agg>>
    /\ UNCHANGED dispatchVars
    /\ UNCHANGED clientVars

\* The top-level execute returns; its values are discarded.
ReturnAggregation ==
    /\ agg.kind = "done"
    /\ agg' = [kind |-> "idle"]
    /\ sibling' = [kind |-> "idle"]
    /\ UNCHANGED <<table, scope>>
    /\ UNCHANGED dispatchVars
    /\ UNCHANGED clientVars

(***************************************************************************)
(* Arbitrary and RowID.                                                     *)
(***************************************************************************)
ArbitraryNotSupported(how) == <<"Arbitrary ", how, " is not supported">>

\* Outcome of a reduction handler and the aggcontext.agg calls it made.
Reduced(res, agg_calls) == [res |-> res, agg_calls |-> agg_calls]

\* group keys in the order groupby yields them
GroupOrder == <<"a", "b">>

\* aggcontext.agg(data, how): the first or last value of every group
AggFirstLast(data, how) ==
    LET present == SelectSeq(GroupOrder,
                             LAMBDA g : \E i \in 1..Len(data.vals) : data.groupings[i] = g)
        rows(g) == {i \in 1..Len(data.vals) : data.groupings[i] = g}
        pick(g) == IF how = "first" THEN CHOOSE i \in rows(g) : \A j \in rows(g) : i <= j
                   ELSE CHOOSE i \in rows(g) : \A j \in rows(g) : j <= i
    IN Series([n \in 1..Len(present) |-> data.vals[pick(present[n])]])

execute_arbitrary_series_groupby(op, data, mask) ==
    LET how == IF op.how = None THEN "first" ELSE op.how
    IN IF how \notin {"first", "last"}
       THEN Reduced(Raised("OperationNotDefinedError", ArbitraryNotSupported(how)), << >>)
       ELSE Reduced(Returned(AggFirstLast(data, how)), <<how>>)

\* data[mask]
Masked(data, mask) ==
    IF mask.rt = "NoneType" THEN data
    ELSE Series(Loc(data.vals, [i \in 1..Len(mask.vals) |-> Truth(mask.vals[i])]))

\* data.iloc[index] for index 0 or -1
Iloc(data, index) ==
    IF data.vals = << >> THEN Raised("IndexError", "single positional indexer is out-of-bounds")
    ELSE Returned(Scalar("int", data.vals[IF index = 0 THEN 1 ELSE Len(data.vals)]))

execute_arbitrary_series_mask(op, data, mask) ==
    IF op.how = "first" THEN Reduced(Iloc(Masked(data, mask), 0), << >>)
    ELSE IF op.how = "last" THEN Reduced(Iloc(Masked(data, mask), -1), << >>)
    ELSE Reduced(Raised("OperationNotDefinedError", ArbitraryNotSupported(op.how)), << >>)

ApplyArbitrary(fn, op, data, mask) ==
    CASE fn = NoImplementationFound ->
            Reduced(Raised("NotImplementedError", NoImplementationFound), << >>)
      [] fn = "execute_arbitrary_series_groupby" ->
            execute_arbitrary_series_groupby(op, data, mask)
      [] fn = "execute_arbitrary_series_mask" ->
            execute_arbitrary_series_mask(op, data, mask)

\* selection modes of an Arbitrary node; None when no mode was given
ArbitraryModes == {"first", "last", "heavy", None}

\* the evaluated where-mask of a reduction over data: none, or (for a plain
\* column) a boolean column of its length
MasksFor(data) ==
    {Scalar("NoneType", <<"null">>)}
    \cup (IF IsSeries(data)
          THEN {m \in ColumnsOf("boolean") : Len(m.vals) = Len(data.vals)}
          ELSE {})

\* execute(Arbitrary(arg, how, where)) with the operands evaluated
ExecuteArbitrary ==
    /\ AllRegistered
    /\ ~Executing
    /\ \E how \in ArbitraryModes,
          data \in ColumnsOf("int64")
                   \cup {x \in GroupedColumnsOf("int64") : Len(x.groupings) = Len(x.vals)} :
         \E mask \in MasksFor(data) :
            \E fn \in Resolutions(funcs, <<"Arbitrary", data.rt, mask.rt>>) :
               LET out == ApplyArbitrary(fn, [how |-> how], data, mask)
               IN call' = [kind |-> "arbitrary", op |-> [how |-> how], data |-> data,
                           mask |-> mask, fn |-> fn, res |-> out.res,
                           agg_calls |-> out.agg_calls]
    /\ UNCHANGED <<funcs, registered>>
    /\ UNCHANGED aggVars
    /\ UNCHANGED clientVars

RowIDNotSupported == "rowid is not supported in dask backends"

execute_rowid(op) == Raised("UnsupportedOperationError", RowIDNotSupported)

\* execute(RowID()) under any scope and time context
ExecuteRowID ==
    /\ AllRegistered
    /\ ~Executing
    /\ \E fn \in Resolutions(funcs, <<"RowID">>) :
         call' = [kind |-> "rowid", fn |-> fn,
                  res |-> IF fn = "execute_rowid" THEN execute_rowid("RowID")
                          ELSE Raised("NotImplementedError", NoImplementationFound)]
    /\ UNCHANGED <<funcs, registered>>
    /\ UNCHANGED aggVars
    /\ UNCHANGED clientVars

(***************************************************************************)
(* Element-wise operations on a grouped series (SeriesGroupBy operand).     *)
(***************************************************************************)
\* row positions of a grouped series in the order its groups are visited
RowsByGroup(data) ==
    LET rows(g) == SelectSeq([i \in 1..Len(data.vals) |-> i],
                             LAMBDA i : data.groupings[i] = g)
    IN rows(GroupOrder[1]) \o rows(GroupOrder[2])

\* data.mul(-1)
execute_series_negate(op, data) ==
    Series([i \in 1..Len(data.vals) |-> <<"int", 0 - data.vals[i][2]>>])

execute_series_group_by_negate(op, data) ==
    Returned(GroupBy(execute_series_negate(op, Obj(data)), data.groupings))

\* getattr(np, type(op).__name__.lower())(data) for op = Abs
execute_series_unary_op(op, data) ==
    Series([i \in 1..Len(data.vals) |->
               <<"int", IF data.vals[i][2] < 0 THEN 0 - data.vals[i][2]
                        ELSE data.vals[i][2]>>])

\* execute_node(op, operand.obj) reaches the handler of (UnaryOp, dd.Series);
\* its result is returned as it is
execute_unary_op_series_gb(op, operand) ==
    Returned(execute_series_unary_op(op, Obj(operand)))

\* left.apply(lambda x: op(x, right)) for op = Add: the groups' results put
\* together in one Series
execute_binary_op_series_gb_simple(op, left, right) ==
    LET order == RowsByGroup(left)
    IN Returned(Series([n \in 1..Len(order) |->
                           <<"int", left.vals[order[n]][2] + right.vals[1][2]>>]))

UnsupportedOperands == "unsupported operand type(s) for +: 'int' and 'SeriesGroupBy'"

\* execute_binary_op(op, left, right) is operator.add(left, right) on the
\* scalar and the SeriesGroupBy, which defines no arithmetic
execute_binary_op_simple_series_gb(op, left, right) ==
    Raised("TypeError", UnsupportedOperands)

\* data.round(places or 0), cast to int64 unless places are given; the
\* elements are integers, which rounding to no or more decimals leaves
execute_round_series(op, data, places) ==
    Series([i \in 1..Len(data.vals) |-> <<"int", data.vals[i][2]>>])

\* execute_node(op, left.obj, right) reaches the handler of (Round, dd.Series)
execute_log_series_gb_others(op, left, right) ==
    Returned(GroupBy(execute_round_series(op, Obj(left), right), left.groupings))

\* the handler the registrations of generic.py give a node over a grouped
\* operand: Negate, another UnaryOp, a BinaryOp with a scalar on the right or
\* on the left, Round with its places
GroupedHandlers ==
    {"execute_series_group_by_negate", "execute_unary_op_series_gb",
     "execute_binary_op_series_gb_simple", "execute_binary_op_simple_series_gb",
     "execute_log_series_gb_others"}

ApplyGrouped(fn, data, other) ==
    CASE fn = "execute_series_group_by_negate" ->
            execute_series_group_by_negate("Negate", data)
      [] fn = "execute_unary_op_series_gb" ->
            execute_unary_op_series_gb("Abs", data)
      [] fn = "execute_binary_op_series_gb_simple" ->
            execute_binary_op_series_gb_simple("Add", data, other)
      [] fn = "execute_binary_op_simple_series_gb" ->
            execute_binary_op_simple_series_gb("Add", other, data)
      [] fn = "execute_log_series_gb_others" ->
            execute_log_series_gb_others("Round", data, other)

\* execute of an element-wise node whose operand evaluated to a grouped int64
\* column; other is the scalar operand or the places of Round
ExecuteGrouped ==
    /\ AllRegistered
    /\ ~Executing
    /\ \E fn \in GroupedHandlers :
       \E data \in {x \in GroupedColumnsOf("int64") : Len(x.groupings) = Len(x.vals)} :
       \E other \in {Scalar("int", e) : e \in Elems("int64")} :
         call' = [kind |-> "grouped", fn |-> fn, data |-> data, other |-> other,
                  res |-> ApplyGrouped(fn, data, other)]
    /\ UNCHANGED <<funcs, registered>>
    /\ UNCHANGED aggVars
    /\ UNCHANGED clientVars

(***************************************************************************)
(* Difference and Limit on DataFrames.                                      *)
(***************************************************************************)
\* how many rows of a frame equal `row` in every column
Occurrences(rows, row) == Cardinality({i \in 1..Len(rows) : rows[i] = row})

\* left.merge(right, on=list(left.columns), how='outer', indicator=True), the
\* part produced by the rows of left: one row per matching row of right,
\* marked both, or the row itself marked left_only
RECURSIVE MergeLeft(_, _)
MergeLeft(left, right) ==
    IF left = << >> THEN << >>
    ELSE LET row == Head(left)
             n == Occurrences(right, row)
         IN (IF n = 0 THEN <<[row |-> row, _merge |-> "left_only"]>>
             ELSE [j \in 1..n |-> [row |-> row, _merge |-> "both"]])
            \o MergeLeft(Tail(left), right)

\* the rows of right that match no row of left, marked right_only
RECURSIVE MergeRight(_, _)
MergeRight(left, right) ==
    IF right = << >> THEN << >>
    ELSE (IF Occurrences(left, Head(right)) = 0
          THEN <<[row |-> Head(right), _merge |-> "right_only"]>>
          ELSE << >>)
         \o MergeRight(left, Tail(right))

MergeOuter(left, right) == MergeLeft(left, right) \o MergeRight(left, right)

\* merged[merged["_merge"] != "both"].drop("_merge", 1)
RECURSIVE DropBoth(_)
DropBoth(merged) ==
    IF merged = << >> THEN << >>
    ELSE (IF Head(merged)._merge # "both" THEN <<Head(merged).row>> ELSE << >>)
         \o DropBoth(Tail(merged))

execute_difference_dataframe_dataframe(op, left, right) ==
    DropBoth(MergeOuter(left, right))

\* execute(left.difference(right))
ExecuteDifference ==
    /\ AllRegistered
    /\ ~Executing
    /\ \E left \in Tables, right \in Tables :
         call' = [kind |-> "difference", left |-> left, right |-> right,
                  res |-> execute_difference_dataframe_dataframe("Difference", left, right)]
    /\ UNCHANGED <<funcs, registered>>
    /\ UNCHANGED aggVars
    /\ UNCHANGED clientVars

\* the default index of a frame: labels 0 .. n-1
RangeIndex(rows) == [i \in 1..Len(rows) |-> i - 1]

\* data.loc[offset : offset + nrows]: a slice by label, both ends included
execute_limit_frame(op, data, nrows, offset) ==
    Loc(data.rows, [i \in 1..Len(data.rows) |->
                       offset <= data.index[i] /\ data.index[i] <= offset + nrows])

\* execute(t.limit(nrows, offset=offset))
ExecuteLimit ==
    /\ AllRegistered
    /\ ~Executing
    /\ \E rows \in Tables, nrows \in 0..MaxRows, offset \in 0..MaxRows :
         LET data == [index |-> RangeIndex(rows), rows |-> rows]
         IN call' = [kind |-> "limit", data |-> data, nrows |-> nrows, offset |-> offset,
                     res |-> execute_limit_frame("Limit", data, nrows, offset)]
    /\ UNCHANGED <<funcs, registered>>
    /\ UNCHANGED aggVars
    /\ UNCHANGED clientVars

(***************************************************************************)
(* The client's tables and the table leaf (DaskTable on a DaskClient).      *)
(***************************************************************************)
\* Most rows of a stored table.
MaxTableRows == 3

\* ibis.expr.timecontext.TIME_COL
TIME_COL == "time"

Times == {10, 20, 30}

\* Stored DataFrames: with a time column, or with the column x alone.
DataFrames ==
    [columns : {{TIME_COL, "x"}}, rows : SeqsUpTo([{TIME_COL, "x"} -> Times], MaxTableRows)]
    \cup [columns : {{"x"}}, rows : SeqsUpTo([{"x"} -> Times], MaxTableRows)]

EmptyDictionary == [n \in {} |-> 0]

\* timecontext=None
NoTimeContext == << >>

TimeContexts == {<<b, e>> : b \in {10, 15, 20, 30}, e \in {15, 20, 30}}

\* Series.between(left, right): both bounds inclusive
Between(t, left, right) == left <= t /\ t <= right

\* the f-string of the IbisError, kept as its parts
MissingTimeColumn(name) ==
    <<"Table ", name, " must have a time column named ", TIME_COL,
      " to execute with time context.">>

\* a leaf that returns the stored table when the time column is missing
LeafWithoutColumnCheck(name, client, timecontext) ==
    LET df == client[name]
        mask == [i \in 1..Len(df.rows) |->
                    Between(df.rows[i][TIME_COL], timecontext[1], timecontext[2])]
    IN IF timecontext # NoTimeContext /\ TIME_COL \in df.columns
       THEN [exc |-> None, msg |-> None, rows |-> Loc(df.rows, mask)]
       ELSE [exc |-> None, msg |-> None, rows |-> df.rows]

execute_database_table_client(name, client, timecontext) ==
    LET df == client[name]
        begin == timecontext[1]
        end == timecontext[2]
        mask == [i \in 1..Len(df.rows) |-> Between(df.rows[i][TIME_COL], begin, end)]
    IN IF timecontext # NoTimeContext
       THEN IF TIME_COL \notin df.columns
            THEN [exc |-> "IbisError", msg |-> MissingTimeColumn(name), rows |-> << >>]
            ELSE [exc |-> None, msg |-> None, rows |-> Loc(df.rows, mask)]
       ELSE [exc |-> None, msg |-> None, rows |-> df.rows]

\* execute(table expression, timecontext=...)
ExecuteDatabaseTable ==
    /\ leaf.kind = "idle"
    /\ \E name \in DOMAIN dictionary, timecontext \in TimeContexts \cup {NoTimeContext} :
         leaf' = [kind |-> "done", name |-> name, timecontext |-> timecontext,
                  out |-> execute_database_table_client(name, dictionary, timecontext)]
    /\ UNCHANGED <<dictionary>>
    /\ UNCHANGED dispatchVars
    /\ UNCHANGED aggVars

ReturnTable ==
    /\ leaf.kind # "idle"
    /\ leaf' = [kind |-> "idle"]
    /\ UNCHANGED <<dictionary>>
    /\ UNCHANGED dispatchVars
    /\ UNCHANGED aggVars

(***************************************************************************)
(* Storing tables in a client (client.py, backends/dask/__init__.py).       *)
(***************************************************************************)
TableNames == {"t", "t1"}

\* objects handed to the client
StoreFrames ==
    { [columns |-> {"x"}, rows |-> << >>],
      [columns |-> {"x"}, rows |-> <<[c \in {"x"} |-> 20]>>],
      [columns |-> {TIME_COL, "x"}, rows |-> <<[c \in {TIME_COL, "x"} |-> 10]>>] }

\* self.dictionary[table_name] = obj
SetItem(dict, table_name, obj) ==
    [n \in (DOMAIN dict) \cup {table_name} |-> IF n = table_name THEN obj ELSE dict[n]]

\* pattern.findall(t) is non-empty: the pattern, a plain name, occurs in t
FindAll(pattern, t) == pattern = t \/ (pattern = "t" /\ t = "t1")

\* DaskClient.list_tables: the keys, filtered by the pattern if one is given
list_tables(dict, like) ==
    IF like # None THEN {t \in DOMAIN dict : FindAll(like, t)}
    ELSE DOMAIN dict

\* DaskClient.exists_table: bool() of the list filtered by the name as pattern
exists_table(dict, name) == list_tables(dict, name) # {}

\* a load that keeps no other table
LoadDataReplacesAll(dict, table_name, obj) == [n \in {table_name} |-> obj]

\* DaskClient.load_data: the dictionary afterwards
load_data(dict, table_name, obj) == SetItem(dict, table_name, obj)

MustPassExprOrSchema == "Must pass expr or schema"

\* An optional argument: << >> when it is None, <<value>> when it is given.
Absent == << >>
Given(value) == <<value>>

\* DaskClient.create_table: the outcome and the dictionary afterwards; with a
\* schema alone an empty frame of the schema's columns is stored
create_table(dict, table_name, obj, schema) ==
    IF obj = Absent /\ schema = Absent
    THEN [exc |-> "IbisError", msg |-> MustPassExprOrSchema, dictionary |-> dict]
    ELSE LET df == IF obj # Absent THEN obj[1] ELSE [columns |-> schema[1], rows |-> << >>]
         IN [exc |-> None, msg |-> None, dictionary |-> SetItem(dict, table_name, df)]

\* DaskClient.table(name): the table expression over the stored frame
DaskTable(dict, name) == [name |-> name, schema |-> dict[name].columns]

\* from_dataframe: with no client a new one is made and the given one is not
\* touched
from_dataframe(df, name, client) ==
    IF client = Absent
    THEN [table |-> DaskTable(SetItem(EmptyDictionary, name, df), name),
          dictionary |-> SetItem(EmptyDictionary, name, df), connected |-> TRUE]
    ELSE [table |-> DaskTable(SetItem(client[1], name, df), name),
          dictionary |-> SetItem(client[1], name, df), connected |-> FALSE]

Stored(method, name, obj, before, after) ==
    [kind |-> "stored", method |-> method, name |-> name, obj |-> obj,
     before |-> before, listed |-> list_tables(after, None)]

LoadData ==
    /\ leaf.kind = "idle"
    /\ \E name \in TableNames, obj \in StoreFrames :
         /\ dictionary' = load_data(dictionary, name, obj)
         /\ leaf' = Stored("load_data", name, obj, dictionary, dictionary')
    /\ UNCHANGED dispatchVars
    /\ UNCHANGED aggVars

CreateTable ==
    /\ leaf.kind = "idle"
    /\ \E name \in TableNames,
          obj \in {Absent} \cup {Given(f) : f \in StoreFrames},
          schema \in {Absent, Given({"x"})} :
         LET out == create_table(dictionary, name, obj, schema)
         IN /\ dictionary' = out.dictionary
            /\ leaf' = IF out.exc # None
                       THEN [kind |-> "failed", method |-> "create_table", name |-> name,
                             exc |-> out.exc, msg |-> out.msg, before |-> dictionary]
                       ELSE Stored("create_table", name,
                                   IF obj = Absent
                                   THEN [columns |-> schema[1], rows |-> << >>]
                                   ELSE obj[1],
                                   dictionary, dictionary')
    /\ UNCHANGED dispatchVars
    /\ UNCHANGED aggVars

\* client.exists_table(name)
ExistsTable ==
    /\ leaf.kind = "idle"
    /\ \E name \in TableNames :
         leaf' = [kind |-> "exists", name |-> name,
                  out |-> exists_table(dictionary, name)]
    /\ UNCHANGED <<dictionary>>
    /\ UNCHANGED dispatchVars
    /\ UNCHANGED aggVars

FromDataframe ==
    /\ leaf.kind = "idle"
    /\ \E name \in TableNames, df \in StoreFrames, given \in BOOLEAN :
         LET out == from_dataframe(df, name, IF given THEN Given(dictionary) ELSE Absent)
         IN /\ dictionary' = IF out.connected THEN dictionary ELSE out.dictionary
            /\ leaf' = IF given
                       THEN Stored("from_dataframe", name, df, dictionary, dictionary')
                       ELSE [kind |-> "elsewhere", method |-> "from_dataframe",
                             name |-> name, before |-> dictionary]
    /\ UNCHANGED dispatchVars
    /\ UNCHANGED aggVars

(***************************************************************************)
(* Type coercion between logical types and native dtypes (client.py).       *)
(***************************************************************************)
\* An ibis DataType: its class, and the timezone of a Timestamp or the unit
\* of an Interval.
DataType(cls, timezone, unit) == [cls |-> cls, timezone |-> timezone, unit |-> unit]
Plain(cls) == DataType(cls, None, None)

\* Native dtypes: np.dtype(name), DatetimeTZDtype(unit, tz), CategoricalDtype()
np_dtype(name) == [class |-> "np.dtype", name |-> name, tz |-> None]
DatetimeTZDtype(unit, tz) == [class |-> "DatetimeTZDtype", name |-> unit, tz |-> tz]
CategoricalDtype == [class |-> "CategoricalDtype", name |-> None, tz |-> None]

\* _ibis_dtypes: DataType class -> numpy dtype name
_ibis_dtypes ==
    [cls \in {"Boolean", "Null", "Array", "String", "Binary", "Date", "Time",
              "Timestamp", "Int8", "Int16", "Int32", "Int64", "UInt8", "UInt16",
              "UInt32", "UInt64", "Float32", "Float64", "Decimal", "Struct"} |->
        CASE cls = "Boolean" -> "bool"
          [] cls \in {"Null", "Array", "String", "Binary", "Decimal", "Struct"} -> "object"
          [] cls \in {"Date", "Timestamp"} -> "datetime64[ns]"
          [] cls = "Time" -> "timedelta64[ns]"
          [] cls = "Int8" -> "int8"
          [] cls = "Int16" -> "int16"
          [] cls = "Int32" -> "int32"
          [] cls = "Int64" -> "int64"
          [] cls = "UInt8" -> "uint8"
          [] cls = "UInt16" -> "uint16"
          [] cls = "UInt32" -> "uint32"
          [] cls = "UInt64" -> "uint64"
          [] cls = "Float32" -> "float32"
          [] cls = "Float64" -> "float64"]

\* _numpy_dtypes: numpy dtype name -> DataType ('double' is float64, 'unicode'
\* and 'str' are the one unicode dtype)
_numpy_dtypes ==
    [name \in {"bool", "int8", "int16", "int32", "int64", "uint8", "uint16",
               "uint32", "uint64", "float16", "float32", "float64", "str",
               "datetime64", "datetime64[ns]", "timedelta64", "timedelta64[ns]"} |->
        CASE name = "bool" -> Plain("Boolean")
          [] name = "int8" -> Plain("Int8")
          [] name = "int16" -> Plain("Int16")
          [] name = "int32" -> Plain("Int32")
          [] name = "int64" -> Plain("Int64")
          [] name = "uint8" -> Plain("UInt8")
          [] name = "uint16" -> Plain("UInt16")
          [] name = "uint32" -> Plain("UInt32")
          [] name = "uint64" -> Plain("UInt64")
          [] name = "float16" -> Plain("Float16")
          [] name = "float32" -> Plain("Float32")
          [] name = "float64" -> Plain("Float64")
          [] name = "str" -> Plain("String")
          [] name \in {"datetime64", "datetime64[ns]"} -> Plain("Timestamp")
          [] name = "timedelta64" -> DataType("Interval", None, "s")
          [] name = "timedelta64[ns]" -> DataType("Interval", None, "ns")]

\* 'timedelta64[{}]'.format(unit)
TimedeltaName(unit) ==
    CASE unit = "ns" -> "timedelta64[ns]"
      [] unit = "s" -> "timedelta64[s]"
      [] unit = "D" -> "timedelta64[D]"

DtypeNotSupported == "numpy dtype {!r} is not supported in the dask backend"

TypeResult(exc, msg, val) == [exc |-> exc, msg |-> msg, val |-> val]

from_numpy_dtype(value) ==
    IF value.name \in DOMAIN _numpy_dtypes
    THEN TypeResult(None, None, _numpy_dtypes[value.name])
    ELSE TypeResult("TypeError", DtypeNotSupported, Plain(None))

\* str(value.tz)
from_dask_tzdtype(value) == TypeResult(None, None, DataType("Timestamp", value.tz, None))

from_dask_categorical(value) == TypeResult(None, None, Plain("Category"))

\* dt.dtype(native): the registration for the native dtype's class
dtype(value) ==
    CASE value.class = "np.dtype" -> from_numpy_dtype(value)
      [] value.class = "DatetimeTZDtype" -> from_dask_tzdtype(value)
      [] value.class = "CategoricalDtype" -> from_dask_categorical(value)

ibis_dtype_to_dask(ibis_dtype) ==
    IF ibis_dtype.cls = "Timestamp" /\ ibis_dtype.timezone # None
    THEN DatetimeTZDtype("ns", ibis_dtype.timezone)
    ELSE IF ibis_dtype.cls = "Interval" THEN np_dtype(TimedeltaName(ibis_dtype.unit))
    ELSE IF ibis_dtype.cls = "Category" THEN CategoricalDtype
    ELSE IF ibis_dtype.cls \in DOMAIN _ibis_dtypes THEN np_dtype(_ibis_dtypes[ibis_dtype.cls])
    ELSE np_dtype("object")

\* The logical types of the two tables, with the timezones and units used.
IbisTypes ==
    {Plain(cls) : cls \in (DOMAIN _ibis_dtypes) \cup {"Float16", "Category"}}
    \cup {DataType("Timestamp", tz, None) : tz \in {"UTC", "CET"}}
    \cup {DataType("Interval", None, unit) : unit \in {"s", "ns", "D"}}

\* dt.dtype(ibis_dtype_to_dask(T))
RoundTrip ==
    /\ ~Executing
    /\ \E T \in IbisTypes :
         call' = [kind |-> "roundtrip", type |-> T, native |-> ibis_dtype_to_dask(T),
                  res |-> dtype(ibis_dtype_to_dask(T))]
    /\ UNCHANGED <<funcs, registered>>
    /\ UNCHANGED aggVars
    /\ UNCHANGED clientVars

(***************************************************************************)
(* Schema inference from a DataFrame's dtypes (client.py).                  *)
(***************************************************************************)
\* Most columns of a frame whose schema is inferred.
MaxColumns == 2

\* _inferable_dask_dtypes: inferred content kind -> DataType
_inferable_dask_dtypes ==
    [kind \in {"boolean", "string", "unicode", "bytes", "empty"} |->
        IF kind = "boolean" THEN Plain("Boolean") ELSE Plain("String")]

\* A column label (a str or, as a bytes label, not), the column's dtype and,
\* for an object column, what pandas infer_dtype reports of its content.
ColumnNames == [str : BOOLEAN, id : {"a"}] \cup [str : {TRUE}, id : {"b"}]

SchemaColumns ==
    [name : ColumnNames, dask_dtype : {"object"},
     inferred : {"mixed", "decimal", "string", "integer"}]
    \cup [name : ColumnNames, dask_dtype : {"int64", "complex128"}, inferred : {None}]

\* df.dtypes of frames with distinct column labels
SchemaFrames ==
    {df \in SeqsUpTo(SchemaColumns, MaxColumns) :
        \A i, j \in 1..Len(df) : df[i].name = df[j].name => i = j}

\* schema=None or a dict of explicit types by column name
Overrides == {[n \in names |-> Plain("Decimal")] : names \in SUBSET {"a", "b"}}

ColumnNamesMustBeStrings == "Column names must be strings to use the dask backend"

UnableToInfer(column_name) ==
    <<"Unable to infer type of column ", column_name,
      ". Try instantiating your table from the client with client.table('my_table', schema={",
      column_name, ": <explicit type>})">>

\* dt.dtype of a DataType is that DataType
from_ibis_dtype(value) == TypeResult(None, None, value)

\* the loop of infer_dask_schema from column i on, pairs collected so far
RECURSIVE InferColumns(_, _, _, _)
InferColumns(df, schema, i, pairs) ==
    IF i > Len(df) THEN TypeResult(None, None, pairs)
    ELSE LET column_name == df[i].name
             dask_dtype == df[i].dask_dtype
             inferred_dtype == df[i].inferred
             ibis_dtype ==
                IF column_name.id \in DOMAIN schema THEN from_ibis_dtype(schema[column_name.id])
                ELSE IF dask_dtype = "object"
                THEN IF inferred_dtype \in {"mixed", "decimal"}
                     THEN TypeResult("TypeError", UnableToInfer(column_name.id), Plain(None))
                     ELSE IF inferred_dtype \notin DOMAIN _inferable_dask_dtypes
                     THEN TypeResult("KeyError", inferred_dtype, Plain(None))
                     ELSE TypeResult(None, None, _inferable_dask_dtypes[inferred_dtype])
                ELSE dtype(np_dtype(dask_dtype))
         IN IF ~column_name.str
            THEN TypeResult("TypeError", ColumnNamesMustBeStrings, << >>)
            ELSE IF ibis_dtype.exc # None
            THEN TypeResult(ibis_dtype.exc, ibis_dtype.msg, << >>)
            ELSE InferColumns(df, schema, i + 1,
                              Append(pairs, <<column_name.id, ibis_dtype.val>>))

\* inference that never looks at the explicit types
InferWithoutOverrides(df, schema) == InferColumns(df, [n \in {} |-> Plain(None)], 1, << >>)

infer_dask_schema(df, schema) == InferColumns(df, schema, 1, << >>)

\* sch.infer(df, schema=schema)
InferSchema ==
    /\ ~Executing
    /\ \E df \in SchemaFrames, schema \in Overrides :
         call' = [kind |-> "schema", df |-> df, schema |-> schema,
                  res |-> infer_dask_schema(df, schema)]
    /\ UNCHANGED <<funcs, registered>>
    /\ UNCHANGED aggVars
    /\ UNCHANGED clientVars

(***************************************************************************)
(* Specifications.                                                          *)
(***************************************************************************)
\* The registry as importing generic.py leaves it: every registered signature
\* bound to the function of the last registration that names it.
ImportedRegistry ==
    LET sigs(i) == Product(Registrations[i].pats)
        last(s) == CHOOSE i \in 1..NumRegistrations :
                      /\ s \in sigs(i)
                      /\ \A j \in 1..NumRegistrations : s \in sigs(j) => j <= i
    IN [s \in UNION {sigs(i) : i \in 1..NumRegistrations} |-> Registrations[last(s)].fn]

\* Module import: the registry fills up, lookups may happen in between.
InitAggIdle ==
    /\ table = << >>
    /\ scope = EmptyScope
    /\ agg = [kind |-> "idle"]
    /\ sibling = [kind |-> "idle"]

InitClientIdle ==
    /\ dictionary = EmptyDictionary
    /\ leaf = [kind |-> "idle"]

InitImported ==
    /\ funcs = ImportedRegistry
    /\ registered = 1..NumRegistrations
    /\ call = [kind |-> "idle"]

InitRegistry ==
    /\ funcs = << >>
    /\ registered = {}
    /\ call = [kind |-> "idle"]
    /\ InitAggIdle
    /\ InitClientIdle

NextRegistry ==
    \/ \E i \in 1..NumRegistrations : Register(i)
    \/ Resolve
    \/ Return

SpecRegistry == InitRegistry /\ [][NextRegistry]_vars

\* Evaluation of Cast and Where nodes after import.
Init ==
    /\ InitImported
    /\ InitAggIdle
    /\ InitClientIdle

Next ==
    \/ ExecuteCast
    \/ ExecuteWhere
    \/ ExecuteRowReduction
    \/ ExecuteNot
    \/ ExecuteArbitrary
    \/ ExecuteRowID
    \/ ExecuteGrouped
    \/ ExecuteDifference
    \/ ExecuteLimit
    \/ Return

Spec == Init /\ [][Next]_vars

\* Aggregations over a table of the client, the caller's scope either empty
\* or binding t to the table.
InitAgg ==
    /\ InitImported
    /\ InitClientIdle
    /\ table \in Tables
    /\ scope \in {EmptyScope, make_scope("t", Frame(table))}
    /\ agg = [kind |-> "idle"]
    /\ sibling = [kind |-> "idle"]

NextAgg ==
    \/ ExecuteAggregation
    \/ EvaluateSibling
    \/ ReturnAggregation

SpecAgg == InitAgg /\ [][NextAgg]_vars

\* Table leaves of a client holding one table.
InitClient ==
    /\ InitImported
    /\ InitAggIdle
    /\ dictionary \in {[n \in {"t"} |-> df] : df \in DataFrames}
    /\ leaf = [kind |-> "idle"]

NextClient ==
    \/ ExecuteDatabaseTable
    \/ ReturnTable

SpecClient == InitClient /\ [][NextClient]_vars

\* A client whose dictionary is filled call by call.
InitStore ==
    /\ InitImported
    /\ InitAggIdle
    /\ dictionary \in {EmptyDictionary} \cup {[n \in {"t"} |-> df] : df \in StoreFrames}
    /\ leaf = [kind |-> "idle"]

NextStore ==
    \/ LoadData
    \/ CreateTable
    \/ FromDataframe
    \/ ExistsTable
    \/ ExecuteDatabaseTable
    \/ ReturnTable

SpecStore == InitStore /\ [][NextStore]_vars

\* Type coercion and schema inference of the client.
NextSchema ==
    \/ RoundTrip
    \/ InferSchema
    \/ Return

SpecSchema == Init /\ [][NextSchema]_vars

(***************************************************************************)
(* Properties of dispatch, Cast and Where.                                  *)
(***************************************************************************)
RegisteredFns == {Registrations[i].fn : i \in registered}

\* C1: once the generic series Cast and the grouped Cast are both registered,
\* a Cast lookup for a grouped series operand yields
\* execute_cast_series_group_by and never the generic series handler, in every
\* registration order and however often it is looked up.
C1_GroupedCastSelectsGroupedHandler ==
       ( /\ call.kind = "dispatch"
         /\ call.types[2] = "SeriesGroupBy"
         /\ {"execute_cast_series_generic", "execute_cast_series_group_by"}
               \subseteq RegisteredFns )
       => call.fn = "execute_cast_series_group_by"

\* A grouped operand resolved against a timestamp target while the generic and
\* the timestamp-specific series handlers are registered too.
C1_Witness ==
    /\ call.kind = "dispatch"
    /\ call.types = <<"Cast", "SeriesGroupBy", "dt_Timestamp">>
    /\ call.fn = "execute_cast_series_group_by"
    /\ {"execute_cast_series_generic", "execute_cast_series_timestamp"}
          \subseteq RegisteredFns

DescriptiveCastErrors ==
    {BoolToTimestampMessage, BoolToIntervalMessage, DontKnowHowToCast}

\* C2: a Cast of a boolean operand (bool, numpy bool or boolean column) to a
\* timestamp or an interval type always raises a TypeError carrying a message
\* about the cast.
C2_BooleanCastRejected ==
    ( /\ call.kind = "cast"
      /\ call.op.arg_type = "boolean"
      /\ call.data.rt \in {"bool", "np_bool", "Series"}
      /\ ClassOf(call.op.to) \in {"dt_Timestamp", "dt_Interval"} )
    => (call.res.exc = "TypeError" /\ call.res.msg \in DescriptiveCastErrors)

\* C3: a Cast whose source type equals its target type returns its evaluated
\* operand unchanged, whichever handler is selected.
C3_SameTypeCastIsNoOp ==
    ( /\ call.kind = "cast"
      /\ call.op.arg_type = call.op.to
      /\ call.fn # NoImplementationFound )
    => call.res = Returned(call.data)

ArrayOperands(c) == {x \in {c.cond, c.true, c.false} : IsSeries(x)}

\* C8: every combination of scalar or column condition, true branch and false
\* branch resolves to a registered Where handler, and the result of a
\* combination with a column has the column's length.
C8_WhereSupportsEveryShape ==
    call.kind = "where" =>
      /\ call.fn # NoImplementationFound
      /\ \A x \in ArrayOperands(call) :
            IsSeries(call.res.val) /\ Len(call.res.val.vals) = Len(x.vals)

ElemAt(x, i) == IF IsSeries(x) THEN x.vals[i] ELSE x.vals[1]

C4_HavingWithoutGroupByRejected ==
    (agg.kind = "done" /\ agg.op.having # << >> /\ agg.op.by = << >>)
    => (agg.out.exc = "ValueError" /\ agg.out.msg = HavingWithoutGroupBy)

AggData == ExecuteTable(agg.scope_in, table).rows

\* rows of the operand for which every predicate of the node holds
KeptRows ==
    {i \in 1..Len(AggData) :
        \A j \in 1..Len(agg.op.predicates) : RowSatisfies(agg.op.predicates[j], AggData[i])}

RECURSIVE SumOfRows(_, _)
SumOfRows(rows, I) ==
    IF I = {} THEN 0
    ELSE LET i == CHOOSE x \in I : TRUE IN rows[i].v + SumOfRows(rows, I \ {i})

MetricOver(m, I) == IF m = "count" THEN Cardinality(I) ELSE SumOfRows(AggData, I)

\* C5: the source bound for the metrics holds exactly the operand's rows that
\* satisfy every predicate, grouped after the filter; each metric value is
\* computed from those rows alone and a key without such a row forms no group.
C5_PredicatesFilterBeforeGrouping ==
    (agg.kind = "done" /\ agg.out.stage \in {"metrics", "having", "done"}) =>
      /\ agg.out.local["t"] = agg.out.source
      /\ agg.out.source.grouped = (agg.op.by # << >>)
      /\ \A r \in TableRows :
            Cardinality({i \in 1..Len(agg.out.source.rows) : agg.out.source.rows[i] = r})
            = Cardinality({i \in KeptRows : AggData[i] = r})
      /\ (agg.out.stage # "metrics" /\ agg.op.by # << >>) =>
            /\ {agg.out.before[n][1] : n \in 1..Len(agg.out.before)}
               = {AggData[i].k : i \in KeptRows}
            /\ \A n \in 1..Len(agg.out.before), j \in 1..Len(agg.op.metrics) :
                  agg.out.before[n][1 + j] =
                     MetricOver(agg.op.metrics[j],
                                {i \in KeptRows : AggData[i].k = agg.out.before[n][1]})
      /\ (agg.out.stage # "metrics" /\ agg.op.by = << >>) =>
            \A j \in 1..Len(agg.op.metrics) :
               agg.out.before[1][j] = MetricOver(agg.op.metrics[j], KeptRows)

\* a grouped aggregation under two predicates that drop one row and keep another
C5_Witness ==
    /\ agg.kind = "done"
    /\ agg.out.exc = None
    /\ Len(agg.op.predicates) = 2
    /\ agg.op.by # << >>
    /\ KeptRows # {}
    /\ Cardinality(KeptRows) < Len(AggData)

\* C6: in a grouped aggregation with having filters the conjunction of the
\* having predicates has one entry per aggregated row, so the length assertion
\* passes, and the rows returned are as many as its true entries.
C6_HavingMatchesAggregatedRows ==
    ( /\ agg.kind = "done"
      /\ agg.op.by # << >>
      /\ agg.op.having # << >>
      /\ agg.out.stage \in {"having", "done"} )
    => /\ agg.out.exc = None
       /\ Len(agg.out.predicate) = Len(agg.out.before)
       /\ Len(agg.out.result)
          = Cardinality({i \in 1..Len(agg.out.predicate) : agg.out.predicate[i]})

\* two groups aggregated, one of them passing the having filters
C6_Witness ==
    /\ agg.kind = "done"
    /\ agg.out.exc = None
    /\ agg.op.having # << >>
    /\ Len(agg.out.before) = 2
    /\ Len(agg.out.result) = 1

\* C7: the caller's scope has the same bindings after an Aggregation returned
\* or failed as before it, and a sibling evaluated afterwards under that scope
\* sees the ungrouped table.
C7_AggregationScopeDoesNotLeak ==
    agg.kind = "done" =>
      /\ scope = agg.scope_in
      /\ sibling.kind = "seen" => sibling.value = Frame(table)

\* a grouped aggregation succeeded on a non-empty table, then the sibling ran
C7_Witness ==
    /\ agg.kind = "done"
    /\ agg.op.by # << >>
    /\ agg.out.exc = None
    /\ agg.out.local["t"].grouped
    /\ table # << >>
    /\ sibling.kind = "seen"

(***************************************************************************)
(* Properties of the table leaf.                                            *)
(***************************************************************************)
BetweenHalfOpen(t, left, right) == left <= t /\ t < right

\* C10: under a time context (begin, end) the leaf returns exactly the rows
\* with begin <= time < end.
C10_TimeRangeIsHalfOpen ==
    (leaf.kind = "done" /\ leaf.timecontext # NoTimeContext /\ leaf.out.exc = None) =>
      leaf.out.rows =
         SelectSeq(dictionary[leaf.name].rows,
                   LAMBDA r : BetweenHalfOpen(r[TIME_COL], leaf.timecontext[1],
                                              leaf.timecontext[2]))

\* C11: under an active time context a leaf whose table has no time column
\* fails with the missing-time-column error and returns no rows; without a
\* time context the leaf never fails and returns the stored rows as they are,
\* with or without a time column.
C11_MissingTimeColumnRejected ==
    leaf.kind = "done" =>
      LET df == dictionary[leaf.name]
      IN /\ (leaf.timecontext # NoTimeContext /\ TIME_COL \notin df.columns) =>
               /\ leaf.out.exc = "IbisError"
               /\ leaf.out.msg = MissingTimeColumn(leaf.name)
               /\ leaf.out.rows = << >>
         /\ leaf.timecontext = NoTimeContext =>
               (leaf.out.exc = None /\ leaf.out.rows = df.rows)
         /\ leaf.out.exc # None =>
               (leaf.timecontext # NoTimeContext /\ TIME_COL \notin df.columns)

\* a non-empty table without a time column materialized under a time context
C11_Witness ==
    /\ leaf.kind = "done"
    /\ leaf.timecontext # NoTimeContext
    /\ TIME_COL \notin dictionary[leaf.name].columns
    /\ dictionary[leaf.name].rows # << >>
    /\ leaf.out.exc = "IbisError"

(***************************************************************************)
(* Properties of row-wise reductions.                                       *)
(***************************************************************************)
RowArrays(value) == {value[i] : i \in {j \in 1..Len(value) : IsSeries(value[j])}}

Reversed(value) == [i \in 1..Len(value) |-> value[Len(value) + 1 - i]]

\* the reduction of row i, a scalar standing for every row
ExpectedAt(op, value, i) ==
    LET row == [j \in 1..Len(value) |-> ElemAt(value[j], i)]
        present == {j \in 1..Len(row) : ~isnull(row[j])}
    IN CASE op = "Greatest" -> MaxOf({row[j] : j \in 1..Len(row)})
         [] op = "Least" -> MinOf({row[j] : j \in 1..Len(row)})
         [] op = "Coalesce" ->
              IF present = {} THEN <<"null">>
              ELSE row[CHOOSE j \in present : \A k \in present : j <= k]

\* C12: a row-wise reduction whose columns disagree in length fails; one whose
\* columns share a length returns a column of that length holding the
\* reduction of each row with scalars broadcast; success or failure, and the
\* value of Greatest and Least, are the same for the operands in reverse order.
C12_RowReductionBroadcasts ==
    call.kind = "rowreduce" =>
      LET lengths == {Len(x.vals) : x \in RowArrays(call.value)}
      IN /\ Cardinality(lengths) > 1 => call.res.exc # None
         /\ Cardinality(lengths) = 1 =>
               /\ call.res.exc = None
               /\ IsSeries(call.res.val)
               /\ \A n \in lengths :
                     /\ Len(call.res.val.vals) = n
                     /\ \A i \in 1..n :
                           call.res.val.vals[i] = ExpectedAt(call.op, call.value, i)
         /\ LET other == ApplyRowReduction(call.op, Reversed(call.value), call.emptyRaises)
            IN /\ (other.exc = None) = (call.res.exc = None)
               /\ call.op # "Coalesce" => other = call.res

(***************************************************************************)
(* Properties of type coercion.                                             *)
(***************************************************************************)
\* C13: every logical type of the tables maps to a native dtype that maps
\* back to a logical type equal to it, timezone of a Timestamp included; only
\* the unit of an Interval may differ.
C13_DtypeRoundTrip ==
    call.kind = "roundtrip" =>
      /\ call.res.exc = None
      /\ call.res.val.cls = call.type.cls
      /\ call.res.val.timezone = call.type.timezone
      /\ call.type.cls # "Interval" => call.res.val = call.type

NeedsOverride(column) ==
    column.dask_dtype = "object" /\ column.inferred \in {"mixed", "decimal"}

Overridden(column, schema) == column.name.str /\ column.name.id \in DOMAIN schema

\* C17: a frame with an object column of mixed or decimal content and no
\* explicit type for it, or with a column label that is not a string, has no
\* schema inferred; a column with an explicit type gets that type whatever
\* its dtype and content.
C17_SchemaInferenceRejectsMixed ==
    call.kind = "schema" =>
      LET df == call.df
          schema == call.schema
      IN /\ (\E i \in 1..Len(df) : NeedsOverride(df[i]) /\ ~Overridden(df[i], schema))
               => call.res.exc # None
         /\ (Len(df) >= 1 /\ df[1].name.str /\ NeedsOverride(df[1])
             /\ ~Overridden(df[1], schema))
               => /\ call.res.exc = "TypeError"
                  /\ call.res.msg = UnableToInfer(df[1].name.id)
         /\ (\E i \in 1..Len(df) : ~df[i].name.str) => call.res.exc # None
         /\ (Len(df) >= 1 /\ ~df[1].name.str)
               => /\ call.res.exc = "TypeError"
                  /\ call.res.msg = ColumnNamesMustBeStrings
         /\ (\A i \in 1..Len(df) : Overridden(df[i], schema))
               => /\ call.res.exc = None
                  /\ call.res.val = [i \in 1..Len(df) |->
                                        <<df[i].name.id, schema[df[i].name.id]>>]
         /\ call.res.exc = None =>
               \A i \in 1..Len(df) :
                  Overridden(df[i], schema) =>
                     call.res.val[i] = <<df[i].name.id, schema[df[i].name.id]>>

\* a mixed column and a decimal column, both given explicit types
C17_Witness ==
    /\ call.kind = "schema"
    /\ Len(call.df) = 2
    /\ call.df[1].inferred = "mixed"
    /\ call.df[2].inferred = "decimal"
    /\ DOMAIN call.schema = {"a", "b"}
    /\ call.res.exc = None

(***************************************************************************)
(* Properties of timestamp casts.                                           *)
(***************************************************************************)
\* the instant of a timestamp element, in hours on the UTC clock
Instant(e) == e[2] - UtcOffset(e[3])

C15_TimestampToDateAfterConversion ==
    ( /\ call.kind = "cast"
      /\ call.data.rt = "Series"
      /\ ClassOf(call.op.arg_type) = "dt_Timestamp"
      /\ call.op.to = "date" )
    => /\ call.res.exc = None
       /\ Len(call.res.val.vals) = Len(call.data.vals)
       /\ \A i \in 1..Len(call.data.vals) :
             call.res.val.vals[i][2] = 24 * (Instant(call.data.vals[i]) \div 24)

(***************************************************************************)
(* Properties of Not.                                                       *)
(***************************************************************************)
\* C16: after import, Not of a lazy dask scalar resolves to execute_not_scalar,
\* the later registration for that signature, and yields the lazy inversion;
\* Not of a bool or numpy bool still resolves to execute_not_bool and yields
\* the negated bool.
C16_LaterNotRegistrationShadows ==
    call.kind = "not" =>
      LET negated == <<"bool", 1 - call.data.vals[1][2]>>
      IN /\ call.data.rt = "dask_Scalar" =>
               /\ call.fn = "execute_not_scalar"
               /\ call.res = Returned(Scalar("dask_Scalar", negated))
         /\ call.data.rt \in {"bool", "np_bool"} =>
               /\ call.fn = "execute_not_bool"
               /\ call.res = Returned(Scalar("bool", negated))

\* Not of a lazy true scalar
C16_Witness ==
    /\ call.kind = "not"
    /\ call.data = Scalar("dask_Scalar", <<"bool", 1>>)
    /\ call.fn = "execute_not_scalar"
    /\ call.res = Returned(Scalar("dask_Scalar", <<"bool", 0>>))

(***************************************************************************)
(* Properties of RowID and Arbitrary.                                       *)
(***************************************************************************)
\* C18: evaluating a RowID node fails with OperationNotDefinedError.
C18_RowIDNotDefined ==
    call.kind = "rowid" => call.res.exc = "OperationNotDefinedError"

\* C19: an Arbitrary whose mode is given and is neither 'first' nor 'last'
\* fails, on a grouped and on a plain column alike, with the error that an
\* invalid aggregation (having without group by) raises, without a call of
\* the aggregation context and without a value.
C19_ArbitraryModeRejected ==
    ( /\ call.kind = "arbitrary"
      /\ call.op.how \notin {"first", "last", None} )
    => /\ call.res.exc = "ValueError"
       /\ call.res.val = NoValue
       /\ call.agg_calls = << >>

(***************************************************************************)
(* Properties of the client's dictionary.                                   *)
(***************************************************************************)
\* C20: after a load_data, create_table or from_dataframe call on the client,
\* list_tables() gives exactly the names held before and the name of the
\* call, that name is bound to the call's object, and every other name is
\* bound as before; whatever the calls made, list_tables() gives exactly the
\* names of the dictionary.
C20_StoredTablesAreListed ==
    /\ list_tables(dictionary, None) = DOMAIN dictionary
    /\ leaf.kind = "stored" =>
          /\ leaf.listed = (DOMAIN leaf.before) \cup {leaf.name}
          /\ DOMAIN dictionary = leaf.listed
          /\ dictionary[leaf.name] = leaf.obj
          /\ \A n \in (DOMAIN leaf.before) \ {leaf.name} : dictionary[n] = leaf.before[n]

\* a second table stored next to a first one, which was itself overwritten
C20_Witness ==
    /\ leaf.kind = "stored"
    /\ leaf.name = "t1"
    /\ "t" \in DOMAIN leaf.before
    /\ "t1" \in DOMAIN leaf.before
    /\ leaf.before["t1"] # leaf.obj
    /\ dictionary["t"] # dictionary["t1"]

\* C21: after any load_data / create_table calls, exists_table(name) is true
\* exactly when name is one of the names stored in the client's dictionary.
C21_ExistsTableIsExact ==
    leaf.kind = "exists" => (leaf.out <=> leaf.name \in DOMAIN dictionary)

\* C22: Difference(left, right) returns exactly the rows of left that do not
\* occur in right, each as often as left holds it, and no row that occurs
\* only in right.
C22_DifferenceKeepsLeftOnly ==
    call.kind = "difference" =>
        \A row \in TableRows :
            Occurrences(call.res, row) =
                IF Occurrences(call.right, row) > 0 THEN 0
                ELSE Occurrences(call.left, row)

\* C23: Limit(nrows, offset) on a table with the index 0 .. n-1 returns the
\* rows at positions offset .. offset+nrows-1, so at most nrows rows and none
\* for nrows = 0.
C23_LimitReturnsNRows ==
    call.kind = "limit" =>
        /\ Len(call.res) <= call.nrows
        /\ call.res = [i \in 1..Len(call.res) |-> call.data.rows[call.offset + i]]
        /\ \A p \in call.offset .. call.offset + call.nrows - 1 :
               p < Len(call.data.rows) => p - call.offset + 1 <= Len(call.res)

\* C24: an element-wise operation on a grouped series (Cast, Negate, another
\* unary operation, a binary operation with a scalar, Round) that returns,
\* returns a grouped series with the groupings of its grouped operand.
C24_GroupingIsKept ==
    /\ call.kind \in {"grouped", "cast"}
    /\ call.data.rt = "SeriesGroupBy"
    /\ call.res.exc = None
    => /\ call.res.val.rt = "SeriesGroupBy"
       /\ call.res.val.groupings = call.data.groupings

\* C25: an Arbitrary node without a selection mode gives, on a grouped and on
\* a plain column alike, what the same handler gives for mode 'first'.
C25_ArbitraryDefaultsToFirst ==
    /\ call.kind = "arbitrary"
    /\ call.op.how = None
    /\ call.fn # NoImplementationFound
    => call.res = ApplyArbitrary(call.fn, [call.op EXCEPT !.how = "first"],
                                 call.data, call.mask).res

\* C26: in a row-wise reduction only columns set the broadcast length: with
\* scalar operands alone, strings of any lengths among them, the reduction of
\* the operands is returned as a scalar, and next to columns of one length a
\* string scalar does not count as a sized operand, the result having the
\* columns' length.
C26_OnlyColumnsAreSized ==
    call.kind = "rowreduce" =>
      LET lengths == {Len(x.vals) : x \in RowArrays(call.value)}
      IN /\ lengths = {} =>
               /\ call.res.exc = None
               /\ IsScalar(call.res.val)
               /\ call.res.val.vals[1] = ExpectedAt(call.op, call.value, 1)
         /\ Cardinality(lengths) = 1 =>
               /\ call.res.msg # TooManyValuesToUnpack
               /\ call.res.exc = None =>
                     \A n \in lengths : Len(call.res.val.vals) = n

====
